---- MODULE Spec2Model ----
(***************************************************************************)
(* Payment gateway worker (src/Payment-Worker.js): canonical signing and   *)
(* verification, the payment_records table, order creation, the gateway    *)
(* callback, the status query and the return redirect.                     *)
(*                                                                         *)
(* JavaScript values are records [t, n, s]: t is the typeof tag, n the     *)
(* number, s the string as a sequence of tokens (a token is a substring;   *)
(* "&" and "=" are tokens of their own).  MD5 is an uninterpreted          *)
(* collision-free function: the digest of x is the string md5(x).          *)
(***************************************************************************)
EXTENDS Integers, Sequences, FiniteSets, TLC

VARIABLES db, now, notified, applied, last, handled, env, sg, inflight, creating

vars == <<db, now, notified, applied, last, handled, env, sg, inflight, creating>>

-----------------------------------------------------------------------------
(* Bounds *)

\* Date.now() takes the values 0 .. MaxTime.
MaxTime == 1
\* At most MaxRequests requests are handled in a run.
MaxRequests == 3

-----------------------------------------------------------------------------
(* JavaScript values *)

Undef == [t |-> "undefined", n |-> 0, s |-> <<>>]
Null == [t |-> "null", n |-> 0, s |-> <<>>]
Str(s) == [t |-> "string", n |-> 0, s |-> s]
Num(n) == [t |-> "number", n |-> n, s |-> <<>>]
EmptyStr == Str(<<>>)

Digits == <<"0", "1", "2", "3", "4", "5", "6", "7", "8", "9">>

\* String(v), as the template literal `${v}` and the + operator render v.
ToStr(v) ==
    CASE v.t = "string" -> v.s
      [] v.t = "number" -> <<Digits[v.n + 1]>>
      [] v.t = "null" -> <<"null">>
      [] OTHER -> <<"undefined">>

\* Boolean(v): what !v, v || d and if (v) test.
Truthy(v) ==
    CASE v.t = "string" -> v.s # <<>>
      [] v.t = "number" -> v.n # 0
      [] OTHER -> FALSE

\* v || d
OrElse(v, d) == IF Truthy(v) THEN v ELSE d

\* String.prototype.toLowerCase / toUpperCase on the hexadecimal digest.
Lower(s) == [i \in DOMAIN s |-> IF s[i] = "MD5(" THEN "md5(" ELSE s[i]]
Upper(s) == [i \in DOMAIN s |-> IF s[i] = "md5(" THEN "MD5(" ELSE s[i]]

-----------------------------------------------------------------------------
(* Canonical signer *)

\* The field names in ascending code-unit order, as Array.prototype.sort
\* without a comparator orders them.
KeyOrder == <<"actual_amount", "amount", "block_transaction_id", "notify_url",
              "order_id", "redirect_url", "signature", "status", "token",
              "trade_id", "trade_type">>

KeyRank(k) == CHOOSE i \in DOMAIN KeyOrder : KeyOrder[i] = k

RECURSIVE InsertKey(_, _)
InsertKey(k, sorted) ==
    IF sorted = <<>> THEN <<k>>
    ELSE IF KeyRank(k) <= KeyRank(Head(sorted)) THEN <<k>> \o sorted
    ELSE <<Head(sorted)>> \o InsertKey(k, Tail(sorted))

\* Faulty variant: the keys are left in insertion order.
SortKeysNone(ks) == ks

RECURSIVE SortKeys(_)
SortKeys(ks) == IF ks = <<>> THEN <<>> ELSE InsertKey(Head(ks), SortKeys(Tail(ks)))

\* params is an object: a sequence of <<key, value>> pairs in insertion order.
ObjectKeys(params) == [i \in DOMAIN params |-> params[i][1]]

Get(params, key) ==
    IF \E i \in DOMAIN params : params[i][1] = key
    THEN params[CHOOSE i \in DOMAIN params : params[i][1] = key][2]
    ELSE Undef

RECURSIVE Join(_, _)
Join(parts, sep) ==
    IF parts = <<>> THEN <<>>
    ELSE IF Len(parts) = 1 THEN parts[1]
    ELSE parts[1] \o sep \o Join(Tail(parts), sep)

\* Faulty variant: a loose comparison that drops null as well.
SignedKeyLoose(params, key) ==
    key # "signature" /\ Get(params, key) \notin {Undef, EmptyStr, Null}

SignedKey(params, key) ==
    key # "signature" /\ Get(params, key) # Undef /\ Get(params, key) # EmptyStr

SignStr(params) ==
    LET sortedKeys == SortKeys(ObjectKeys(params))
        kept == SelectSeq(sortedKeys, LAMBDA key : SignedKey(params, key))
        pairs == [i \in DOMAIN kept |-> <<kept[i], "=">> \o ToStr(Get(params, kept[i]))]
    IN Join(pairs, <<"&">>)

Md5(x) == <<"md5(">> \o x \o <<")">>

generateSignature(params, token) == Lower(Md5(SignStr(params) \o ToStr(token)))

\* Faulty variant: the digests are compared as they are.
verifySignatureExact(params, token, signature) ==
    IF signature.t # "string" THEN "throw"
    ELSE IF generateSignature(params, token) = signature.s THEN "true"
    ELSE "false"

\* "true" / "false", or "throw" when signature has no toLowerCase method.
verifySignature(params, token, signature) ==
    IF signature.t # "string" THEN "throw"
    ELSE IF generateSignature(params, token) = Lower(signature.s) THEN "true"
    ELSE "false"

-----------------------------------------------------------------------------
(* payment_records table (D1 / SQLite) *)

IsDigitStr(v) == v.t = "string" /\ Len(v.s) = 1 /\ \E i \in DOMAIN Digits : Digits[i] = v.s[1]

\* Column affinity INTEGER / REAL: text that is a number is stored as a number.
NumAffinity(v) ==
    IF IsDigitStr(v) THEN Num((CHOOSE i \in DOMAIN Digits : Digits[i] = v.s[1]) - 1) ELSE v

\* Column affinity TEXT: a number is stored as its text.
TextAffinity(v) == IF v.t = "number" THEN Str(ToStr(v)) ELSE v

\* D1 refuses to bind undefined: .bind(...).run() throws.
BindThrows(values) == \E i \in DOMAIN values : values[i] = Undef

NextId(d) == Cardinality(d) + 1

\* Faulty variant: order_id has no UNIQUE constraint.
InsertThrowsNoUnique(d, record, dbFails) ==
    \/ dbFails
    \/ BindThrows(<<record.order_id, record.trade_id, record.amount, record.actual_amount,
                    record.trade_type, record.user_id, record.status, record.payment_url,
                    record.token, record.created_at>>)
    \/ record.order_id = Null \/ record.amount = Null \/ record.created_at = Null

\* INSERT INTO payment_records (...) VALUES (...); dbFails is a storage error.
InsertThrows(d, record, dbFails) ==
    \/ dbFails
    \/ BindThrows(<<record.order_id, record.trade_id, record.amount, record.actual_amount,
                    record.trade_type, record.user_id, record.status, record.payment_url,
                    record.token, record.created_at>>)
    \/ record.order_id = Null \/ record.amount = Null \/ record.created_at = Null
    \/ \E r \in d : r.order_id = TextAffinity(record.order_id)

\* Faulty variant: INSERT OR REPLACE, the new row takes the place of the stored one.
savePaymentRecordReplace(d, record, dbFails) ==
    IF InsertThrowsNoUnique(d, record, dbFails) THEN d
    ELSE {r \in d : r.order_id # TextAffinity(record.order_id)}
         \cup {[id |-> NextId(d),
                 order_id |-> TextAffinity(record.order_id),
                 trade_id |-> TextAffinity(record.trade_id),
                 amount |-> NumAffinity(record.amount),
                 actual_amount |-> TextAffinity(record.actual_amount),
                 trade_type |-> TextAffinity(record.trade_type),
                 user_id |-> TextAffinity(record.user_id),
                 status |-> NumAffinity(record.status),
                 payment_url |-> TextAffinity(record.payment_url),
                 token |-> TextAffinity(record.token),
                 block_transaction_id |-> Null,
                 created_at |-> NumAffinity(record.created_at),
                 updated_at |-> Null]}

savePaymentRecord(d, record, dbFails) ==
    IF InsertThrows(d, record, dbFails) THEN d
    ELSE d \cup {[id |-> NextId(d),
                  order_id |-> TextAffinity(record.order_id),
                  trade_id |-> TextAffinity(record.trade_id),
                  amount |-> NumAffinity(record.amount),
                  actual_amount |-> TextAffinity(record.actual_amount),
                  trade_type |-> TextAffinity(record.trade_type),
                  user_id |-> TextAffinity(record.user_id),
                  status |-> NumAffinity(record.status),
                  payment_url |-> TextAffinity(record.payment_url),
                  token |-> TextAffinity(record.token),
                  block_transaction_id |-> Null,
                  created_at |-> NumAffinity(record.created_at),
                  updated_at |-> Null]}

UpdateThrows(orderId, updates, dbFails) ==
    \/ dbFails
    \/ BindThrows(<<updates.status, updates.block_transaction_id, updates.actual_amount,
                    updates.updated_at, orderId>>)

\* Faulty variant: the transaction reference is appended instead of overwritten.
UpdatedRowAppend(r, updates) ==
    [r EXCEPT !.status = NumAffinity(updates.status),
              !.block_transaction_id =
                  Str(r.block_transaction_id.s \o TextAffinity(updates.block_transaction_id).s),
              !.actual_amount = TextAffinity(updates.actual_amount),
              !.updated_at = NumAffinity(updates.updated_at)]

\* Faulty variant: the update stamps created_at along with updated_at.
UpdatedRowStampsCreation(r, updates) ==
    [r EXCEPT !.status = NumAffinity(updates.status),
              !.block_transaction_id = TextAffinity(updates.block_transaction_id),
              !.actual_amount = TextAffinity(updates.actual_amount),
              !.created_at = NumAffinity(updates.updated_at),
              !.updated_at = NumAffinity(updates.updated_at)]

\* Faulty variant: updated_at is never moved back to an earlier time.
UpdatedRowLatestStamp(r, updates) ==
    [r EXCEPT !.status = NumAffinity(updates.status),
              !.block_transaction_id = TextAffinity(updates.block_transaction_id),
              !.actual_amount = TextAffinity(updates.actual_amount),
              !.updated_at =
                  IF r.updated_at.t = "number" /\ r.updated_at.n > updates.updated_at.n
                  THEN r.updated_at
                  ELSE NumAffinity(updates.updated_at)]

UpdatedRow(r, updates) ==
    [r EXCEPT !.status = NumAffinity(updates.status),
              !.block_transaction_id = TextAffinity(updates.block_transaction_id),
              !.actual_amount = TextAffinity(updates.actual_amount),
              !.updated_at = NumAffinity(updates.updated_at)]

\* Faulty variant: the row is written although the statement reports an error.
updatePaymentRecordUnguarded(d, orderId, updates, dbFails) ==
    {IF r.order_id = TextAffinity(orderId) THEN UpdatedRow(r, updates) ELSE r : r \in d}

\* Faulty variant: the UPDATE has no WHERE clause.
updatePaymentRecordAll(d, orderId, updates, dbFails) ==
    IF UpdateThrows(orderId, updates, dbFails) THEN d
    ELSE {UpdatedRow(r, updates) : r \in d}

\* UPDATE payment_records SET ... WHERE order_id = ?
updatePaymentRecord(d, orderId, updates, dbFails) ==
    IF UpdateThrows(orderId, updates, dbFails) THEN d
    ELSE {IF r.order_id = TextAffinity(orderId) THEN UpdatedRow(r, updates) ELSE r : r \in d}

\* SELECT * FROM payment_records WHERE trade_id = ? ... .first(): <<row>>, or <<>>
\* for the null that .first() gives when no row matches and that the catch returns
\* when the query throws.
getPaymentRecordByTradeId(d, tradeId, dbFails) ==
    LET hits == {r \in d : r.trade_id = TextAffinity(tradeId)}
    IN IF dbFails \/ tradeId = Undef \/ hits = {} THEN <<>>
       ELSE <<CHOOSE r \in hits : \A q \in hits : r.id <= q.id>>

-----------------------------------------------------------------------------
(* Inputs *)

Secret == Str(<<"sec">>)
ManagerUrl == Str(<<"https://manager/api/payment/notify">>)
ApiUrl == Str(<<"https://epusdt">>)
Origin == <<"https://pay">>

\* env: the worker's bindings; a variable that is not configured is undefined.
Configs ==
    {[BEPUSDT_API_URL |-> ApiUrl, BEPUSDT_API_TOKEN |-> Secret,
      MANAGER_NOTIFY_URL |-> ManagerUrl, REDIRECT_BASE_URL |-> Undef],
     [BEPUSDT_API_URL |-> ApiUrl, BEPUSDT_API_TOKEN |-> Undef,
      MANAGER_NOTIFY_URL |-> ManagerUrl, REDIRECT_BASE_URL |-> Undef],
     [BEPUSDT_API_URL |-> Undef, BEPUSDT_API_TOKEN |-> Secret,
      MANAGER_NOTIFY_URL |-> Undef, REDIRECT_BASE_URL |-> Str(<<"https://front">>)]}

OrderIds == {Str(<<"O1">>), Str(<<"O2">>)}
TradeIds == {Str(<<"T1">>), Str(<<"T2">>)}

CallbackBase == [trade_id |-> Str(<<"T1">>), order_id |-> Str(<<"O1">>), amount |-> Num(5),
                 actual_amount |-> Str(<<"5">>), token |-> Str(<<"tok1">>),
                 block_transaction_id |-> Str(<<"0xabc">>), status |-> Num(2)]

\* The fields of a callback body other than signature: for order O1 every status
\* with and without block_transaction_id, a second outcome with a refreshed
\* amount, a status sent as a string and a body without actual_amount; for order
\* O2 a pending and a completed callback.
CallbackFields ==
    {[CallbackBase EXCEPT !.status = st, !.block_transaction_id = b] :
        st \in {Num(1), Num(2), Num(3)}, b \in {Str(<<"0xabc">>), Undef}}
    \cup {[CallbackBase EXCEPT !.actual_amount = Str(<<"6">>),
                               !.block_transaction_id = Str(<<"0xdef">>)],
          [CallbackBase EXCEPT !.status = Str(<<"2">>)],
          [CallbackBase EXCEPT !.actual_amount = Undef]}
    \cup {[CallbackBase EXCEPT !.order_id = Str(<<"O2">>), !.status = st] : st \in {Num(1), Num(2)}}

\* const verifyParams = { trade_id, order_id, amount, actual_amount, token,
\*                        block_transaction_id, status }
VerifyParams(body) ==
    << <<"trade_id", body.trade_id>>, <<"order_id", body.order_id>>,
       <<"amount", body.amount>>, <<"actual_amount", body.actual_amount>>,
       <<"token", body.token>>, <<"block_transaction_id", body.block_transaction_id>>,
       <<"status", body.status>> >>

OtherStatus(f) == [f EXCEPT !.status = IF f.status = Num(2) THEN Num(1) ELSE Num(2)]

\* What a sender can put in the signature field of the fields f: the gateway's
\* digest (in upper case too for the base callback), a digest made without the
\* secret, the digest of the same fields with another status, or nothing.
Signatures(f) ==
    {Str(generateSignature(VerifyParams(f), Secret)),
     Str(generateSignature(VerifyParams(f), Undef)),
     Str(generateSignature(VerifyParams(OtherStatus(f)), Secret)),
     Undef}
    \cup (IF f = CallbackBase THEN {Str(Upper(generateSignature(VerifyParams(f), Secret)))} ELSE {})

WithSignature(f, sig) ==
    [trade_id |-> f.trade_id, order_id |-> f.order_id, amount |-> f.amount,
     actual_amount |-> f.actual_amount, token |-> f.token,
     block_transaction_id |-> f.block_transaction_id, status |-> f.status,
     signature |-> sig]

\* The callback bodies a run delivers.
Callbacks == UNION {{WithSignature(f, sig) : sig \in Signatures(f)} : f \in CallbackFields}

-----------------------------------------------------------------------------
(* POST /api/pay/notify *)

NotifyUpdates(body, t) ==
    [status |-> body.status,
     block_transaction_id |-> OrElse(body.block_transaction_id, EmptyStr),
     actual_amount |-> body.actual_amount,
     updated_at |-> Num(t)]

\* Faulty variant: the update runs before the signature is checked.
NotifyDbUnchecked(d, body, t, isValid, dbFails) ==
    updatePaymentRecord(d, body.order_id, NotifyUpdates(body, t), dbFails)

\* The repository after the callback: the update runs only past the signature check.
NotifyDb(d, body, t, isValid, dbFails) ==
    IF isValid = "true"
    THEN updatePaymentRecord(d, body.order_id, NotifyUpdates(body, t), dbFails)
    ELSE d

NotifyPayload(body) ==
    [to |-> "manager", order_id |-> body.order_id, trade_id |-> body.trade_id,
     amount |-> body.amount, actual_amount |-> body.actual_amount,
     status |-> body.status, block_transaction_id |-> body.block_transaction_id]

\* Faulty variant: every accepted callback is forwarded, whatever its status.
NotifyCallsAnyStatus(e, body, isValid) ==
    IF isValid = "true" /\ Truthy(e.MANAGER_NOTIFY_URL) THEN <<NotifyPayload(body)>> ELSE <<>>

\* The outbound calls of one callback: if (status === 2) { if (managerNotifyUrl) fetch }
NotifyCalls(e, body, isValid) ==
    IF isValid = "true" /\ body.status = Num(2) /\ Truthy(e.MANAGER_NOTIFY_URL)
    THEN <<NotifyPayload(body)>>
    ELSE <<>>

\* Faulty variant: no inner try around the fetch, so its failure reaches the outer catch.
NotifyResponseUncaught(isValid, fetchThrows) ==
    CASE isValid = "throw" \/ fetchThrows -> [status |-> 500, body |-> "error"]
      [] isValid = "false" -> [status |-> 400, body |-> "signature error"]
      [] OTHER -> [status |-> 200, body |-> "ok"]

\* The response: 500 from the outer catch, 400 on a signature mismatch, else ok;
\* a throwing fetch is caught by the inner try.
NotifyResponse(isValid, fetchThrows) ==
    CASE isValid = "throw" -> [status |-> 500, body |-> "error"]
      [] isValid = "false" -> [status |-> 400, body |-> "signature error"]
      [] OTHER -> [status |-> 200, body |-> "ok"]

\* The handler past the signature check, which has given isValid; dbFails and
\* fetchThrows are what the D1 update and the fetch of the manager endpoint do.
NotifyOutcome(d, e, t, body, dbFails, fetchThrows, isValid) ==
    [db |-> NotifyDb(d, body, t, isValid, dbFails),
     resp |-> NotifyResponse(isValid, fetchThrows /\ NotifyCalls(e, body, isValid) # <<>>),
     calls |-> NotifyCalls(e, body, isValid),
     valid |-> isValid,
     wrote |-> isValid = "true" /\ ~UpdateThrows(body.order_id, NotifyUpdates(body, t), dbFails),
     threw |-> fetchThrows /\ NotifyCalls(e, body, isValid) # <<>>]

NoRequest == [op |-> "none", req |-> <<>>, resp |-> [status |-> 0, body |-> ""],
              calls |-> <<>>, valid |-> "", wrote |-> FALSE, threw |-> FALSE, replay |-> FALSE,
              again |-> FALSE]

Count(calls, oid) == Cardinality({i \in DOMAIN calls : calls[i].to = "manager" /\ calls[i].order_id = oid})

Idle == last.op = "none" /\ handled < MaxRequests

\* applied[o]: the callback body whose update last changed the stored order o.
Applies(d, out, body, o) == out.wrote /\ body.order_id = o /\ \E r \in d : r.order_id = o

HandleNotify ==
    /\ Idle
    /\ \E body \in Callbacks :
         \E isValid \in {verifySignature(VerifyParams(body), env.BEPUSDT_API_TOKEN, body.signature)} :
           \E dbFails \in (IF isValid = "true" THEN BOOLEAN ELSE {FALSE}),
              fetchThrows \in (IF NotifyCalls(env, body, isValid) # <<>> THEN BOOLEAN ELSE {FALSE}) :
             \E out \in {NotifyOutcome(db, env, now, body, dbFails, fetchThrows, isValid)} :
               /\ db' = out.db
               /\ notified' = notified \cup {o \in OrderIds : Count(out.calls, o) > 0}
               /\ applied' = [o \in OrderIds |-> IF Applies(db, out, body, o) THEN <<body>> ELSE applied[o]]
               /\ last' = [op |-> "notify", req |-> body, resp |-> out.resp, calls |-> out.calls,
                           valid |-> out.valid, wrote |-> out.wrote, threw |-> out.threw,
                           replay |-> isValid = "true" /\ \E o \in OrderIds : body.order_id = o /\ applied[o] = <<body>>,
                           again |-> \E o \in notified : Count(out.calls, o) > 0]
               /\ handled' = handled + 1
               /\ UNCHANGED <<now, env, sg, inflight, creating>>

\* request.json() throws on a body that is not JSON: the outer catch answers 500.
HandleNotifyUnparsed ==
    /\ Idle
    /\ handled' = handled + 1
    /\ last' = [NoRequest EXCEPT !.op = "notify", !.resp = [status |-> 500, body |-> "error"]]
    /\ UNCHANGED <<db, now, notified, applied, env, sg, inflight, creating>>

-----------------------------------------------------------------------------
(* GET /api/pay/status/{trade_id} *)

QueryIds == TradeIds \cup {Str(<<"T3">>)}

\* Faulty variant: the status is answered as the one every order is created with.
handleQueryStatusStale(d, tradeId, dbFails) ==
    LET record == getPaymentRecordByTradeId(d, tradeId, dbFails)
    IN IF record = <<>>
       THEN [status |-> 404, body |-> [success |-> FALSE, data |-> <<>>]]
       ELSE [status |-> 200,
             body |-> [success |-> TRUE,
                       data |-> <<[order_id |-> record[1].order_id,
                                   trade_id |-> record[1].trade_id,
                                   status |-> Num(1),
                                   amount |-> record[1].amount,
                                   actual_amount |-> record[1].actual_amount,
                                   payment_url |-> record[1].payment_url]>>]]

handleQueryStatus(d, tradeId, dbFails) ==
    LET record == getPaymentRecordByTradeId(d, tradeId, dbFails)
    IN IF record = <<>>
       THEN [status |-> 404, body |-> [success |-> FALSE, data |-> <<>>]]
       ELSE [status |-> 200,
             body |-> [success |-> TRUE,
                       data |-> <<[order_id |-> record[1].order_id,
                                   trade_id |-> record[1].trade_id,
                                   status |-> record[1].status,
                                   amount |-> record[1].amount,
                                   actual_amount |-> record[1].actual_amount,
                                   payment_url |-> record[1].payment_url]>>]]

HandleQuery ==
    \E tradeId \in QueryIds, dbFails \in BOOLEAN :
        /\ Idle
        /\ handled' = handled + 1
        /\ last' = [NoRequest EXCEPT !.op = "status", !.req = [trade_id |-> tradeId, dbFails |-> dbFails],
                                     !.resp = handleQueryStatus(db, tradeId, dbFails)]
        /\ UNCHANGED <<db, now, notified, applied, env, sg, inflight, creating>>

-----------------------------------------------------------------------------
(* POST /api/pay/create *)

\* The parsed request body; a field the body does not have is undefined.
CreateRequests ==
    [order_id : OrderIds \cup {Undef, EmptyStr}, amount : {Num(5), Undef, EmptyStr},
     trade_type : {Undef}, user_id : {Undef}]

GatewayData(tradeId) ==
    [trade_id |-> tradeId, order_id |-> Str(<<"gw-order">>), amount |-> Num(5),
     actual_amount |-> Str(<<"5">>), token |-> Str(<<"tok1">>),
     payment_url |-> Str(<<"https://pay/T">>), expiration_time |-> Num(9)]

\* What the call to the gateway can come to: fetch throws, the body is not JSON,
\* or a JSON result with status_code, message and data (<<>> when absent).
GatewayOutcomes ==
    {[kind |-> "unreachable", status_code |-> Undef, message |-> Undef, data |-> <<>>],
     [kind |-> "notjson", status_code |-> Undef, message |-> Undef, data |-> <<>>],
     [kind |-> "json", status_code |-> Num(400), message |-> Str(<<"rejected">>), data |-> <<>>],
     [kind |-> "json", status_code |-> Num(400), message |-> Undef, data |-> <<>>],
     [kind |-> "json", status_code |-> Num(200), message |-> Undef, data |-> <<>>]}
    \cup {[kind |-> "json", status_code |-> Num(200), message |-> Undef, data |-> <<GatewayData(x)>>]
            : x \in TradeIds \cup {Undef}}

\* parseFloat
ParseFloat(v) ==
    IF v.t = "number" THEN v
    ELSE IF IsDigitStr(v) THEN NumAffinity(v)
    ELSE [t |-> "number", n |-> 0, s |-> <<"NaN">>]

PayParams(e, req) ==
    LET base == << <<"order_id", req.order_id>>,
                   <<"amount", ParseFloat(req.amount)>>,
                   <<"notify_url", Str(Origin \o <<"/api/pay/notify">>)>>,
                   <<"redirect_url", Str(ToStr(OrElse(e.REDIRECT_BASE_URL, Str(Origin)))
                                         \o <<"?order_id=">> \o ToStr(req.order_id))>>,
                   <<"trade_type", OrElse(req.trade_type, Str(<<"usdt.trc20">>))>> >>
    IN Append(base, <<"signature", Str(generateSignature(base, e.BEPUSDT_API_TOKEN))>>)

CreateRecord(req, data, t) ==
    [order_id |-> req.order_id, trade_id |-> data.trade_id, amount |-> req.amount,
     actual_amount |-> data.actual_amount,
     trade_type |-> OrElse(req.trade_type, Str(<<"usdt.trc20">>)),
     user_id |-> OrElse(req.user_id, EmptyStr), status |-> Num(1),
     payment_url |-> data.payment_url, token |-> data.token, created_at |-> Num(t)]

\* Faulty variant: only a field that is absent counts as missing.
MissingParamsAbsentOnly(req) == req.order_id = Undef \/ req.amount = Undef

\* if (!order_id || !amount)
MissingParams(req) == ~Truthy(req.order_id) \/ ~Truthy(req.amount)

\* Faulty variant: only the gateway address is looked at.
NotConfiguredUrlOnly(e) == ~Truthy(e.BEPUSDT_API_URL)

\* if (!apiUrl || !apiToken)
NotConfigured(e) == ~Truthy(e.BEPUSDT_API_URL) \/ ~Truthy(e.BEPUSDT_API_TOKEN)

\* Faulty variant: every failure is answered with 500.
FailureAlways500(code, error) ==
    [status |-> 500, body |-> [success |-> FALSE, error |-> error, data |-> <<>>]]

Failure(code, error) == [status |-> code, body |-> [success |-> FALSE, error |-> error, data |-> <<>>]]

handleCreatePayment(d, e, t, req, gw, dbFails) ==
    IF MissingParams(req)
    THEN [db |-> d, calls |-> <<>>, resp |-> Failure(400, Str(<<"missing parameter">>))]
    ELSE IF NotConfigured(e)
    THEN [db |-> d, calls |-> <<>>, resp |-> Failure(500, Str(<<"channel not configured">>))]
    ELSE LET calls == <<[to |-> "gateway", params |-> PayParams(e, req)]>>
         IN CASE gw.kind # "json" ->
                   [db |-> d, calls |-> calls, resp |-> Failure(500, Str(<<gw.kind>>))]
              [] gw.kind = "json" /\ gw.status_code = Num(200) /\ gw.data = <<>> ->
                   [db |-> d, calls |-> calls, resp |-> Failure(500, Str(<<"TypeError">>))]
              [] gw.kind = "json" /\ gw.status_code = Num(200) /\ gw.data # <<>> ->
                   [db |-> savePaymentRecord(d, CreateRecord(req, gw.data[1], t), dbFails),
                    calls |-> calls,
                    resp |-> [status |-> 200,
                              body |-> [success |-> TRUE, error |-> Undef, data |-> gw.data]]]
              [] OTHER ->
                   [db |-> d, calls |-> calls,
                    resp |-> Failure(400, OrElse(gw.message, Str(<<"create failed">>)))]

HandleCreate ==
    /\ Idle
    /\ \E req \in CreateRequests, gw \in GatewayOutcomes, dbFails \in BOOLEAN :
         /\ dbFails => gw.data # <<>>
         /\ \E out \in {handleCreatePayment(db, env, now, req, gw, dbFails)} :
              /\ (dbFails \/ gw.kind # "unreachable") => out.calls # <<>>
              /\ db' = out.db
              /\ last' = [NoRequest EXCEPT !.op = "create",
                                           !.req = [body |-> req, gw |-> gw, dbFails |-> dbFails],
                                           !.resp = out.resp, !.calls = out.calls]
              /\ handled' = handled + 1
              /\ UNCHANGED <<now, notified, applied, env, sg, inflight, creating>>

\* request.json() throws on a body that is not JSON: the outer catch answers 500.
HandleCreateUnparsed ==
    /\ Idle
    /\ handled' = handled + 1
    /\ last' = [NoRequest EXCEPT !.op = "create", !.resp = Failure(500, Str(<<"SyntaxError">>))]
    /\ UNCHANGED <<db, now, notified, applied, env, sg, inflight, creating>>

-----------------------------------------------------------------------------
(* GET /api/pay/return *)

handlePaymentReturn(e, orderId) ==
    [status |-> 302,
     body |-> Str(ToStr(OrElse(e.REDIRECT_BASE_URL, Str(<<"/">>)))
                  \o <<"?payment_success=1&order_id=">> \o ToStr(orderId))]

HandleReturn ==
    \E orderId \in OrderIds \cup {Null} :
        /\ Idle
        /\ handled' = handled + 1
        /\ last' = [NoRequest EXCEPT !.op = "return", !.req = orderId,
                                     !.resp = handlePaymentReturn(env, orderId)]
        /\ UNCHANGED <<db, now, notified, applied, env, sg, inflight, creating>>

-----------------------------------------------------------------------------
(* The worker *)

\* The response goes out and the request is over.
Deliver ==
    /\ last.op # "none"
    /\ last' = NoRequest
    /\ UNCHANGED <<db, now, notified, applied, handled, env, sg, inflight, creating>>

\* Date.now() advances between requests.
Tick ==
    /\ last.op = "none"
    /\ now < MaxTime
    /\ now' = now + 1
    /\ UNCHANGED <<db, notified, applied, last, handled, env, sg, inflight, creating>>

SgIdle == [phase |-> "idle"]

\* The invocations of handlePaymentNotify that can be in flight at once.
Handlers == {1, 2}

\* An invocation: where it stands (pc), the body it parsed, what verifySignature
\* gives for that body (valid), the updates it handed to updatePaymentRecord,
\* its response, and seq, the rank of its UPDATE among the UPDATEs that D1 has
\* executed (0 before).
NotStarted == [pc |-> "start", body |-> <<>>, valid |-> "", updates |-> <<>>,
               resp |-> [status |-> 0, body |-> ""], seq |-> 0]

NoneInFlight == [h \in Handlers |-> NotStarted]

\* An invocation of handleCreatePayment: where it stands (pc), the body it
\* parsed, what the gateway does with its call (gw), the record it hands to
\* savePaymentRecord, and its response.
NotCreating == [pc |-> "start", req |-> <<>>, gw |-> <<>>, record |-> <<>>,
                resp |-> [status |-> 0, body |-> <<>>]]

Init ==
    /\ db = {}
    /\ now = 0
    /\ notified = {}
    /\ applied = [o \in OrderIds |-> <<>>]
    /\ last = NoRequest
    /\ handled = 0
    /\ env \in Configs
    /\ sg = SgIdle
    /\ inflight = NoneInFlight
    /\ creating = NotCreating

Next ==
    \/ HandleCreate
    \/ HandleCreateUnparsed
    \/ HandleNotify
    \/ HandleNotifyUnparsed
    \/ HandleQuery
    \/ HandleReturn
    \/ Deliver
    \/ Tick

Spec == Init /\ [][Next]_vars

-----------------------------------------------------------------------------
(* The signer on its own: generateSignature and verifySignature applied to a    *)
(* parameter object a and to a second object b made from it, either by         *)
(* inserting the same fields in another order or by giving one field another   *)
(* value.                                                                      *)

SignValues == {Undef, EmptyStr, Null, Num(2), Str(<<"2">>)}

SignKeyLists == {<<"status", "order_id", "amount">>, <<"status", "signature", "order_id">>}

SignObjects ==
    {[i \in 1..3 |-> <<ks[i], vs[i]>>] : ks \in SignKeyLists, vs \in [1..3 -> SignValues]}

InsertionOrders == {p \in [1..3 -> 1..3] : \A i, j \in 1..3 : p[i] = p[j] => i = j}

Reordered(a) == {[i \in 1..3 |-> a[p[i]]] : p \in InsertionOrders} \ {a}

Tampered(a) ==
    {[a EXCEPT ![i] = <<a[i][1], v>>] : i \in {j \in 1..3 : a[j][1] # "signature"}, v \in SignValues}
    \ {a}

\* The object a without its signature field and without the fields whose value
\* is undefined, null or the empty string.
Stripped(a) ==
    SelectSeq(a, LAMBDA p : p[1] # "signature" /\ p[2] \notin {Undef, Null, EmptyStr})

SignInputs ==
    UNION {{[phase |-> "input", rel |-> "reordered", a |-> a, b |-> b, token |-> k,
             siga |-> <<>>, sigb |-> <<>>, va |-> "", vb |-> "", vu |-> ""]
               : b \in Reordered(a), k \in {Secret, Undef}}
           \cup
           {[phase |-> "input", rel |-> "tampered", a |-> a, b |-> b, token |-> k,
             siga |-> <<>>, sigb |-> <<>>, va |-> "", vb |-> "", vu |-> ""]
               : b \in Tampered(a), k \in {Secret, Undef}}
           \cup
           {[phase |-> "input", rel |-> "stripped", a |-> a, b |-> Stripped(a), token |-> k,
             siga |-> <<>>, sigb |-> <<>>, va |-> "", vb |-> "", vu |-> ""]
               : k \in {Secret, Undef}}
           : a \in SignObjects}

\* Both objects are signed.
SignBoth ==
    /\ sg.phase = "input"
    /\ sg' = [sg EXCEPT !.phase = "signed",
                        !.siga = generateSignature(sg.a, sg.token),
                        !.sigb = generateSignature(sg.b, sg.token)]
    /\ UNCHANGED <<db, now, notified, applied, last, handled, env, inflight, creating>>

\* Both objects are verified against the digest of the first, and the first
\* against its digest in upper case as well.
VerifyBoth ==
    /\ sg.phase = "signed"
    /\ sg' = [sg EXCEPT !.phase = "verified",
                        !.va = verifySignature(sg.a, sg.token, Str(sg.siga)),
                        !.vb = verifySignature(sg.b, sg.token, Str(sg.siga)),
                        !.vu = verifySignature(sg.a, sg.token, Str(Upper(sg.siga)))]
    /\ UNCHANGED <<db, now, notified, applied, last, handled, env, inflight, creating>>

InitSign ==
    /\ db = {}
    /\ now = 0
    /\ notified = {}
    /\ applied = [o \in OrderIds |-> <<>>]
    /\ last = NoRequest
    /\ handled = 0
    /\ env = CHOOSE c \in Configs : c.BEPUSDT_API_TOKEN = Secret /\ c.MANAGER_NOTIFY_URL = ManagerUrl
    /\ sg \in SignInputs
    /\ inflight = NoneInFlight
    /\ creating = NotCreating

NextSign ==
    \/ SignBoth
    \/ VerifyBoth

SpecSign == InitSign /\ [][NextSign]_vars

-----------------------------------------------------------------------------
(* Callbacks handled concurrently: each invocation of handlePaymentNotify runs *)
(* from one await to the next without interruption, and the invocations        *)
(* interleave at the awaits.  D1 executes the UPDATE statements it is sent one *)
(* at a time.                                                                  *)

FullConfig == CHOOSE c \in Configs : c.BEPUSDT_API_TOKEN = Secret /\ c.MANAGER_NOTIFY_URL = ManagerUrl

\* The order O1 as a creation request at time 0 stored it.
ConcOrders ==
    savePaymentRecord({}, CreateRecord([order_id |-> Str(<<"O1">>), amount |-> Num(5),
                                        trade_type |-> Undef, user_id |-> Undef],
                                       GatewayData(Str(<<"T1">>)), 0), FALSE)

\* The callbacks of the gateway for order O1, and one with a digest that does
\* not match.
ConcCallbacks ==
    {WithSignature(f, Str(generateSignature(VerifyParams(f), Secret)))
        : f \in {g \in CallbackFields : g.order_id = Str(<<"O1">>)}}
    \cup {WithSignature(CallbackBase,
                        Str(generateSignature(VerifyParams(OtherStatus(CallbackBase)), Secret)))}

\* const body = await request.json(); the digest of the body is under way
\* (valid is a function of the body and the secret alone).
NotifyReceive(h) ==
    /\ inflight[h].pc = "start"
    /\ \E body \in ConcCallbacks :
         inflight' = [inflight EXCEPT
                        ![h].pc = "parsed", ![h].body = body,
                        ![h].valid = verifySignature(VerifyParams(body), env.BEPUSDT_API_TOKEN,
                                                     body.signature)]
    /\ UNCHANGED <<db, now, notified, applied, last, handled, env, sg, creating>>

\* await verifySignature(...) has resolved: a mismatch is answered at once, else
\* the updates are built, updated_at: Date.now() with them, and the UPDATE is
\* sent to D1.
NotifyVerify(h) ==
    /\ inflight[h].pc = "parsed"
    /\ inflight' = IF inflight[h].valid = "true"
                   THEN [inflight EXCEPT ![h].pc = "updating",
                                         ![h].updates = NotifyUpdates(inflight[h].body, now)]
                   ELSE [inflight EXCEPT ![h].pc = "done",
                                         ![h].resp = NotifyResponse(inflight[h].valid, FALSE)]
    /\ UNCHANGED <<db, now, notified, applied, last, handled, env, sg, creating>>

NextSeq == 1 + Cardinality({h \in Handlers : inflight[h].seq > 0})

\* D1 executes the UPDATE of invocation h, or fails to.
NotifyWrite(h) ==
    /\ inflight[h].pc = "updating"
    /\ \E dbFails \in BOOLEAN :
         /\ db' = updatePaymentRecord(db, inflight[h].body.order_id, inflight[h].updates, dbFails)
         /\ inflight' = [inflight EXCEPT
                            ![h].pc = "updated",
                            ![h].seq = IF UpdateThrows(inflight[h].body.order_id,
                                                       inflight[h].updates, dbFails)
                                       THEN 0 ELSE NextSeq]
    /\ UNCHANGED <<now, notified, applied, last, handled, env, sg, creating>>

\* await updatePaymentRecord(...) has resolved: for a completed payment with
\* MANAGER_NOTIFY_URL set the fetch of the manager endpoint is issued and
\* awaited, else the callback is answered.
NotifyForward(h) ==
    /\ inflight[h].pc = "updated"
    /\ inflight' = IF NotifyCalls(env, inflight[h].body, "true") # <<>>
                   THEN [inflight EXCEPT ![h].pc = "notifying"]
                   ELSE [inflight EXCEPT ![h].pc = "done",
                                         ![h].resp = NotifyResponse("true", FALSE)]
    /\ notified' = notified \cup {o \in OrderIds :
                                    Count(NotifyCalls(env, inflight[h].body, "true"), o) > 0}
    /\ UNCHANGED <<db, now, applied, last, handled, env, sg, creating>>

\* The manager endpoint answers or the fetch throws: await fetch(...) is over,
\* a throw is caught, and the callback is answered.
NotifyFetchSettles(h) ==
    /\ inflight[h].pc = "notifying"
    /\ \E fetchThrows \in BOOLEAN :
         inflight' = [inflight EXCEPT ![h].pc = "done",
                                      ![h].resp = NotifyResponse("true", fetchThrows)]
    /\ UNCHANGED <<db, now, notified, applied, last, handled, env, sg, creating>>

\* Date.now() advances while callbacks are in flight.
ConcTick ==
    /\ now < MaxTime
    /\ now' = now + 1
    /\ UNCHANGED <<db, notified, applied, last, handled, env, sg, inflight, creating>>

InitConc ==
    /\ db = ConcOrders
    /\ now = 0
    /\ notified = {}
    /\ applied = [o \in OrderIds |-> <<>>]
    /\ last = NoRequest
    /\ handled = 0
    /\ env = FullConfig
    /\ sg = SgIdle
    /\ inflight = NoneInFlight
    /\ creating = NotCreating

NextConc ==
    \/ \E h \in Handlers : NotifyReceive(h)
    \/ \E h \in Handlers : NotifyVerify(h)
    \/ \E h \in Handlers : NotifyWrite(h)
    \/ \E h \in Handlers : NotifyForward(h)
    \/ \E h \in Handlers : NotifyFetchSettles(h)
    \/ ConcTick

SpecConc == InitConc /\ [][NextConc]_vars

\* The runtime runs every continuation that is ready and D1 executes every
\* statement it is sent; nothing makes the manager endpoint answer.
NotifyProgress == \E h \in Handlers : NotifyVerify(h) \/ NotifyWrite(h) \/ NotifyForward(h)

SpecConcFair == SpecConc /\ WF_vars(NotifyProgress)

-----------------------------------------------------------------------------
(* A creation and the gateway's callback for it handled concurrently: the      *)
(* gateway can send the callback as soon as it has the creation's call, while  *)
(* handleCreatePayment still awaits the answer or its INSERT.                  *)

\* The body is parsed and checked, the parameters are signed and the fetch of
\* the gateway is issued; gw is what the gateway makes of the call.
CreateSend ==
    /\ creating.pc = "start"
    /\ \E req \in CreateRequests, gw \in GatewayOutcomes :
         /\ (MissingParams(req) \/ NotConfigured(env)) => gw.kind = "unreachable"
         /\ creating' =
               IF MissingParams(req)
               THEN [creating EXCEPT !.pc = "done", !.req = req,
                                     !.resp = Failure(400, Str(<<"missing parameter">>))]
               ELSE IF NotConfigured(env)
               THEN [creating EXCEPT !.pc = "done", !.req = req,
                                     !.resp = Failure(500, Str(<<"channel not configured">>))]
               ELSE [creating EXCEPT !.pc = "calling", !.req = req, !.gw = gw]
    /\ UNCHANGED <<db, now, notified, applied, last, handled, env, sg, inflight>>

\* await fetch(...) and await response.json() are over: a failure is answered,
\* and on status_code 200 the record is built, created_at: Date.now() with it,
\* and the INSERT is sent to D1.
CreateResume ==
    /\ creating.pc = "calling"
    /\ creating' =
          CASE creating.gw.kind # "json" ->
                 [creating EXCEPT !.pc = "done", !.resp = Failure(500, Str(<<creating.gw.kind>>))]
            [] creating.gw.kind = "json" /\ creating.gw.status_code = Num(200)
                 /\ creating.gw.data = <<>> ->
                 [creating EXCEPT !.pc = "done", !.resp = Failure(500, Str(<<"TypeError">>))]
            [] creating.gw.kind = "json" /\ creating.gw.status_code = Num(200)
                 /\ creating.gw.data # <<>> ->
                 [creating EXCEPT !.pc = "inserting",
                                  !.record = CreateRecord(creating.req, creating.gw.data[1], now)]
            [] OTHER ->
                 [creating EXCEPT !.pc = "done",
                                  !.resp = Failure(400, OrElse(creating.gw.message,
                                                               Str(<<"create failed">>)))]
    /\ UNCHANGED <<db, now, notified, applied, last, handled, env, sg, inflight>>

\* D1 executes the INSERT, or fails to, and the caller is answered with success.
CreateInsert ==
    /\ creating.pc = "inserting"
    /\ \E dbFails \in BOOLEAN :
         db' = savePaymentRecord(db, creating.record, dbFails)
    /\ creating' = [creating EXCEPT
                       !.pc = "done",
                       !.resp = [status |-> 200,
                                 body |-> [success |-> TRUE, error |-> Undef,
                                           data |-> creating.gw.data]]]
    /\ UNCHANGED <<now, notified, applied, last, handled, env, sg, inflight>>

\* The gateway, which has answered the creation of order O1 with trade T1,
\* sends a callback for it.
GatewayCallsBack ==
    /\ creating.pc \in {"calling", "inserting", "done"} /\ creating.gw # <<>>
    /\ creating.req.order_id = Str(<<"O1">>)
    /\ creating.gw.kind = "json" /\ creating.gw.status_code = Num(200)
    /\ creating.gw.data # <<>> /\ creating.gw.data[1].trade_id = Str(<<"T1">>)
    /\ NotifyReceive(1)

InitRace ==
    /\ db = {}
    /\ now = 0
    /\ notified = {}
    /\ applied = [o \in OrderIds |-> <<>>]
    /\ last = NoRequest
    /\ handled = 0
    /\ env = FullConfig
    /\ sg = SgIdle
    /\ inflight = NoneInFlight
    /\ creating = NotCreating

NextRace ==
    \/ CreateSend
    \/ CreateResume
    \/ CreateInsert
    \/ GatewayCallsBack
    \/ NotifyVerify(1)
    \/ NotifyWrite(1)
    \/ NotifyForward(1)
    \/ NotifyFetchSettles(1)
    \/ ConcTick

SpecRace == InitRace /\ [][NextRace]_vars

-----------------------------------------------------------------------------
(* Two callbacks with one signature value: the gateway's callback a and a body *)
(* b that carries a's signature with other fields, each handled by             *)
(* handlePaymentNotify on the same repository.                                 *)

\* The gateway's callbacks.
SignedCallbacks ==
    {WithSignature(f, Str(generateSignature(VerifyParams(f), Secret))) : f \in CallbackFields}

\* Bodies with the signature of a: the status as a string instead of a number,
\* another status, an absent actual_amount sent as the empty string, an absent
\* block_transaction_id sent as the empty string, and the status moved into the
\* value of order_id behind an "&".
Variants(a) ==
    ({[a EXCEPT !.status = Str(ToStr(a.status))],
      OtherStatus(a),
      [a EXCEPT !.order_id = Str(ToStr(a.order_id) \o <<"&", "status", "=">> \o ToStr(a.status)),
                !.status = Undef]}
     \cup (IF a.actual_amount = Undef THEN {[a EXCEPT !.actual_amount = EmptyStr]} ELSE {})
     \cup (IF a.block_transaction_id = Undef
           THEN {[a EXCEPT !.block_transaction_id = EmptyStr]} ELSE {}))
    \ {a}

PairInputs ==
    UNION {{[phase |-> "received", a |-> a, b |-> b, outa |-> <<>>, outb |-> <<>>]
              : b \in Variants(a)} : a \in SignedCallbacks}

\* Each of the two bodies goes through handlePaymentNotify on the repository db.
HandlePair ==
    /\ sg.phase = "received"
    /\ \E fetchThrows \in BOOLEAN :
         sg' = [sg EXCEPT
                  !.phase = "handled",
                  !.outa = NotifyOutcome(db, env, now, sg.a, FALSE, fetchThrows,
                                         verifySignature(VerifyParams(sg.a), env.BEPUSDT_API_TOKEN,
                                                         sg.a.signature)),
                  !.outb = NotifyOutcome(db, env, now, sg.b, FALSE, fetchThrows,
                                         verifySignature(VerifyParams(sg.b), env.BEPUSDT_API_TOKEN,
                                                         sg.b.signature))]
    /\ UNCHANGED <<db, now, notified, applied, last, handled, env, inflight, creating>>

InitPair ==
    /\ db \in {{}, ConcOrders}
    /\ now \in 0..MaxTime
    /\ notified = {}
    /\ applied = [o \in OrderIds |-> <<>>]
    /\ last = NoRequest
    /\ handled = 0
    /\ env = FullConfig
    /\ sg \in PairInputs
    /\ inflight = NoneInFlight
    /\ creating = NotCreating

NextPair == HandlePair

SpecPair == InitPair /\ [][NextPair]_vars

-----------------------------------------------------------------------------
(* Properties *)

Ok200 == [status |-> 200, body |-> "ok"]

\* last is a callback that was parsed and went through the signature check.
Callback == last.op = "notify" /\ last.valid # ""

StoredOrder(d, oid) == {r \in d : r.order_id = oid}

\* C1: a callback whose signature does not verify (mismatch, or a signature that
\* cannot be compared at all) leaves every stored payment order unchanged,
\* whatever its other fields are.
C1_NoMutationOnRejection ==
    [][(last'.op = "notify" /\ last'.valid # "true") => db' = db]_vars

\* A rejected callback for a stored order whose fields would have changed it.
C1_Witness ==
    /\ Callback /\ last.valid = "false"
    /\ \E r \in StoredOrder(db, last.req.order_id) :
         UpdatedRow(r, NotifyUpdates(last.req, now)) # r

SameButUpdatedAt(d1, d2) ==
    /\ Cardinality(d1) = Cardinality(d2)
    /\ {[r EXCEPT !.updated_at = Null] : r \in d1} = {[r EXCEPT !.updated_at = Null] : r \in d2}

\* C2 as claimed: the second application of the same valid payload leaves the
\* stored state identical in every field, updated_at included, and returns ok/200.
C2_Original ==
    [][(last'.op = "notify" /\ last'.replay) => (db' = db /\ last'.resp = Ok200)]_vars

\* C2 amended: applying again the valid payload whose previous application wrote
\* the stored order leaves every stored field except updated_at as it was, adds
\* and removes no order, and returns ok/200 like the first application.
C2_IdempotentButUpdatedAt ==
    [][(last'.op = "notify" /\ last'.replay)
         => (SameButUpdatedAt(db, db') /\ last'.resp = Ok200)]_vars

\* The same payload written a second time, at a later time than the first.
C2_Witness ==
    /\ Callback /\ last.replay /\ last.wrote
    /\ \E r \in StoredOrder(db, last.req.order_id) : r.updated_at = Num(now) /\ now > 0

Terminal(st) == st \in {Num(2), Num(3)}

\* C3: once a stored order's status is terminal (Completed 2 or failed 3), no
\* later step changes that status.
C3_MonotonicStatus ==
    [][\A r \in db : Terminal(r.status)
          => \A q \in StoredOrder(db', r.order_id) : q.status = r.status]_vars

\* C4: a callback whose signature is not the valid digest of its other fields,
\* be it a wrong value or a missing signature field, is answered with 400.
C4_RejectedWith400 ==
    (Callback /\ last.valid # "true") => last.resp.status = 400

\* C5: when the fetch of the manager endpoint throws while a callback with a
\* valid signature is handled, the response is still ok/200 and a repository
\* update that was performed is retained.
C5_NotifierFailureSwallowed ==
    (Callback /\ last.valid = "true" /\ last.threw)
      => /\ last.resp = Ok200
         /\ last.wrote => \A r \in StoredOrder(db, last.req.order_id) :
                             r = UpdatedRow(r, NotifyUpdates(last.req, now))

\* The fetch threw after the update of a stored order.
C5_Witness ==
    /\ Callback /\ last.threw /\ last.wrote
    /\ StoredOrder(db, last.req.order_id) # {}

CarriesFields(call, body) ==
    /\ call.to = "manager"
    /\ call.order_id = body.order_id /\ call.trade_id = body.trade_id
    /\ call.amount = body.amount /\ call.actual_amount = body.actual_amount
    /\ call.status = body.status
    /\ call.block_transaction_id = body.block_transaction_id

\* C6 as claimed: an accepted callback with status 2 triggers exactly one
\* Notifier call carrying its fields; any other callback triggers none.
C6_Original ==
    Callback =>
      IF last.valid = "true" /\ last.req.status = Num(2)
      THEN Len(last.calls) = 1 /\ CarriesFields(last.calls[1], last.req)
      ELSE last.calls = <<>>

\* C6 amended: an accepted callback whose status is the number 2 triggers exactly
\* one Notifier call carrying its fields when MANAGER_NOTIFY_URL is configured and
\* none when it is not; an accepted callback with any other status, and every
\* rejected callback, triggers none.
C6_OneCallWhenConfigured ==
    Callback =>
      IF last.valid = "true" /\ last.req.status = Num(2) /\ Truthy(env.MANAGER_NOTIFY_URL)
      THEN Len(last.calls) = 1 /\ CarriesFields(last.calls[1], last.req)
      ELSE last.calls = <<>>

\* An accepted completion callback has been forwarded.
C6_Witness ==
    /\ Callback /\ last.valid = "true" /\ last.req.status = Num(2)
    /\ Len(last.calls) = 1

\* C7: over repeated valid completion callbacks for one order_id at most one
\* completion notification is forwarded to the manager endpoint.
C7_AtMostOneNotification ==
    Callback => ~last.again

\* C8: the digest of generateSignature does not depend on the order in which
\* the fields were inserted.
C8_InsertionOrderIndependent ==
    (sg.phase # "idle" /\ sg.phase # "input" /\ sg.rel = "reordered") => sg.siga = sg.sigb

\* Two insertion orders, neither of them sorted, of three signed fields.
C8_Witness ==
    /\ sg.phase = "signed" /\ sg.rel = "reordered"
    /\ ObjectKeys(sg.a) # SortKeys(ObjectKeys(sg.a))
    /\ ObjectKeys(sg.b) # SortKeys(ObjectKeys(sg.b))
    /\ \A i \in 1..3 : SignedKey(sg.a, sg.a[i][1])

ChangedKey(a, b) == a[CHOOSE i \in DOMAIN a : a[i] # b[i]][1]

\* What a field contributes to the signed string: nothing when it is undefined
\* or the empty string, else its string conversion.
Canonical(v) ==
    IF v = Undef \/ v = EmptyStr THEN [kept |-> FALSE, s |-> <<>>] ELSE [kept |-> TRUE, s |-> ToStr(v)]

\* C9 as claimed: giving one field (not signature) a different value makes
\* verifySignature return false for the digest that verified before.
C9_Original ==
    (sg.phase = "verified" /\ sg.rel = "tampered" /\ sg.va = "true") => sg.vb = "false"

\* C9 amended: giving one field (not signature) a value with a different
\* canonical form makes verifySignature return false; undefined and the empty
\* string have the same canonical form (the field is left out), and any other
\* value has that of its string conversion, so 2 and "2" have the same.
C9_TamperSensitive ==
    (/\ sg.phase = "verified" /\ sg.rel = "tampered" /\ sg.va = "true"
     /\ Canonical(Get(sg.a, ChangedKey(sg.a, sg.b))) # Canonical(Get(sg.b, ChangedKey(sg.a, sg.b))))
      => sg.vb = "false"

\* A signed field was given another value and the digest no longer verifies.
C9_Witness ==
    /\ sg.phase = "verified" /\ sg.rel = "tampered" /\ sg.va = "true" /\ sg.vb = "false"
    /\ Canonical(Get(sg.a, ChangedKey(sg.a, sg.b))).kept
    /\ Canonical(Get(sg.b, ChangedKey(sg.a, sg.b))).kept

Snapshot(r) ==
    [order_id |-> r.order_id, trade_id |-> r.trade_id, status |-> r.status,
     amount |-> r.amount, actual_amount |-> r.actual_amount, payment_url |-> r.payment_url]

\* C10: a status query for a trade_id that matches no stored order returns
\* success:false with 404, and one for a trade_id that matches a stored order
\* returns the snapshot of such an order, not NotFound.
C10_NotFoundExactlyWhenUnknown ==
    last.op = "status" =>
      LET hits == {r \in db : r.trade_id = last.req.trade_id}
      IN IF hits = {}
         THEN last.resp = [status |-> 404, body |-> [success |-> FALSE, data |-> <<>>]]
         ELSE /\ last.resp.status = 200 /\ last.resp.body.success
              /\ \E r \in hits : last.resp.body.data = <<Snapshot(r)>>

\* C11: handling a status query leaves the repository unchanged and makes no
\* outbound call, and the order_id, trade_id, status, amount, actual_amount and
\* payment_url it returns are those of an order stored under the queried
\* trade_id at the time of the read.
C11_QueryReadOnly ==
    [][last'.op = "status"
         => /\ db' = db
            /\ last'.calls = <<>>
            /\ last'.resp.status = 200
                 => \E r \in db : /\ r.trade_id = last'.req.trade_id
                                  /\ last'.resp.body.data = <<Snapshot(r)>>]_vars

\* A query answered with an order that a callback has updated since its creation.
C11_Witness ==
    /\ last.op = "status" /\ last.resp.status = 200
    /\ \E r \in db : /\ last.resp.body.data = <<Snapshot(r)>>
                     /\ r.status # Num(1) /\ r.updated_at # Null

\* last is a creation request whose body was parsed.
Creation == last.op = "create" /\ last.req # <<>>

Absent(v) == v = Undef \/ v = EmptyStr

Rejected(resp, code) == resp.status = code /\ ~resp.body.success

\* C12: a creation request whose order_id or amount is absent or the empty
\* string is answered with success:false and 400, no call to the gateway is
\* made and no order record is created.
C12_MissingParamsRejected ==
    [][(/\ last'.op = "create" /\ last'.req # <<>>
        /\ (Absent(last'.req.body.order_id) \/ Absent(last'.req.body.amount)))
         => /\ Rejected(last'.resp, 400)
            /\ last'.calls = <<>>
            /\ db' = db]_vars

\* An empty order_id is rejected while the gateway is configured and an order is stored.
C12_Witness ==
    /\ Creation /\ last.req.body.order_id = EmptyStr /\ ~Absent(last.req.body.amount)
    /\ ~NotConfigured(env) /\ db # {}
    /\ Rejected(last.resp, 400)

\* C13: a creation request with order_id and amount, handled while
\* BEPUSDT_API_URL or BEPUSDT_API_TOKEN is not configured, is answered with
\* success:false and 500, no call is made and no order record is created.
C13_NotConfiguredRejected ==
    [][(/\ last'.op = "create" /\ last'.req # <<>>
        /\ Truthy(last'.req.body.order_id) /\ Truthy(last'.req.body.amount)
        /\ (~Truthy(env.BEPUSDT_API_URL) \/ ~Truthy(env.BEPUSDT_API_TOKEN)))
         => /\ Rejected(last'.resp, 500)
            /\ last'.calls = <<>>
            /\ db' = db]_vars

\* A complete request is refused because the shared secret is not configured.
C13_Witness ==
    /\ Creation /\ Truthy(last.req.body.order_id) /\ Truthy(last.req.body.amount)
    /\ Truthy(env.BEPUSDT_API_URL) /\ ~Truthy(env.BEPUSDT_API_TOKEN)
    /\ Rejected(last.resp, 500)

\* The gateway was called and answered with a success that has all its parts:
\* JSON with status_code 200 and a data object that carries a trade_id.
WellFormedSuccess(gw) ==
    /\ gw.kind = "json" /\ gw.status_code = Num(200)
    /\ gw.data # <<>> /\ gw.data[1].trade_id # Undef

\* C14: when the call to the gateway does not give a well-formed success
\* response (the fetch throws, the payload's status_code is not 200, or the
\* payload is malformed), no order record is created and the caller receives
\* success:false.
C14_NoRecordNoSuccessOnGatewayFailure ==
    [][(last'.op = "create" /\ last'.calls # <<>> /\ ~WellFormedSuccess(last'.req.gw))
         => (db' = db /\ ~last'.resp.body.success)]_vars

GatewayReportsFailure(gw) == gw.kind = "json" /\ gw.status_code # Num(200)

\* C15 as claimed: an unreachable gateway and a failure reported by the gateway
\* are both answered with 400, carrying the gateway's message when there is one.
C15_Original ==
    (/\ Creation /\ last.calls # <<>>
     /\ (last.req.gw.kind = "unreachable" \/ GatewayReportsFailure(last.req.gw)))
      => /\ last.resp.status = 400
         /\ Truthy(last.req.gw.message) => last.resp.body.error = last.req.gw.message

\* C15 amended: a failure reported by the gateway (a JSON payload whose
\* status_code is not 200) is answered with success:false and 400, carrying the
\* gateway's message when there is one; an unreachable gateway (the fetch
\* throws) and a response that is not JSON are answered with success:false and
\* 500, carrying the message of the error.
C15_UpstreamErrorStatus ==
    (Creation /\ last.calls # <<>>)
      => /\ GatewayReportsFailure(last.req.gw)
              => /\ Rejected(last.resp, 400)
                 /\ Truthy(last.req.gw.message) => last.resp.body.error = last.req.gw.message
         /\ last.req.gw.kind # "json"
              => /\ Rejected(last.resp, 500)
                 /\ last.resp.body.error = Str(<<last.req.gw.kind>>)

\* The gateway could not be reached and the caller got 500 while an order from
\* an earlier creation is stored.
C15_Witness ==
    /\ Creation /\ last.calls # <<>> /\ last.req.gw.kind = "unreachable"
    /\ last.resp.status = 500 /\ db # {}

\* C16: when the gateway answers with a well-formed success (status_code 200),
\* the caller receives success:true with the gateway's fields and the
\* repository holds an order with the request's order_id, the gateway's
\* trade_id and status 1; so a caller that received success:true with trade_id
\* T finds an order with trade_id T stored.
C16_SuccessPersisted ==
    (Creation /\ last.calls # <<>> /\ WellFormedSuccess(last.req.gw))
      => /\ last.resp.status = 200 /\ last.resp.body.success
         /\ last.resp.body.data = last.req.gw.data
         /\ \E r \in db : /\ r.order_id = last.req.body.order_id
                          /\ r.trade_id = last.req.gw.data[1].trade_id
                          /\ r.status = Num(1)

CreationFields(r) ==
    [order_id |-> r.order_id, trade_id |-> r.trade_id, amount |-> r.amount,
     trade_type |-> r.trade_type, payment_url |-> r.payment_url, token |-> r.token,
     created_at |-> r.created_at]

\* C17: a stored order keeps its order_id, trade_id, amount, trade_type,
\* payment_url, token and created_at over every step, whichever request is
\* handled.
C17_CreationFieldsKept ==
    [][\A r \in db : \E q \in db' : q.id = r.id /\ CreationFields(q) = CreationFields(r)]_vars

\* An order that a callback has updated, after a second creation request for its
\* order_id to which the gateway gave another trade_id at a later time.
C17_Witness ==
    /\ Creation /\ last.calls # <<>> /\ WellFormedSuccess(last.req.gw) /\ ~last.req.dbFails
    /\ \E r \in StoredOrder(db, last.req.body.order_id) :
         /\ r.trade_id # last.req.gw.data[1].trade_id
         /\ r.created_at # Num(now)
         /\ r.updated_at # Null

\* C18: the repository holds at most one order per order_id; an order_id that
\* was not stored becomes stored only in the handling of a creation request to
\* which the gateway answered status_code 200, never in that of a callback;
\* and an order_id that is stored stays stored.
C18_OneOrderCreatedOnceNeverDeleted ==
    [][/\ \A o \in OrderIds : Cardinality(StoredOrder(db', o)) <= 1
       /\ \A r \in db : StoredOrder(db', r.order_id) # {}
       /\ (\E q \in db' : StoredOrder(db, q.order_id) = {})
            => /\ last'.op = "create" /\ last'.req # <<>>
               /\ last'.req.gw.kind = "json" /\ last'.req.gw.status_code = Num(200)]_vars

\* An accepted callback for an order_id that is not stored, next to a stored order.
C18_Witness ==
    /\ Callback /\ last.valid = "true" /\ last.wrote
    /\ StoredOrder(db, last.req.order_id) = {} /\ db # {}

\* C20: when the UPDATE of a callback with a valid signature fails, the handler
\* still answers ok/200 and the repository is as it was before the callback.
C20_WriteFailureSwallowed ==
    [][(last'.op = "notify" /\ last'.valid = "true" /\ ~last'.wrote)
         => (last'.resp = Ok200 /\ db' = db)]_vars

\* The failed write of a callback that would have changed the stored order.
C20_Witness ==
    /\ Callback /\ last.valid = "true" /\ ~last.wrote /\ last.resp = Ok200
    /\ \E r \in StoredOrder(db, last.req.order_id) :
         UpdatedRow(r, NotifyUpdates(last.req, now)) # r

\* The invocations whose UPDATE D1 has executed on the row r.
Writers(r) == {h \in Handlers : inflight[h].seq > 0 /\ inflight[h].body.order_id = r.order_id}

LastWriter(r) == CHOOSE h \in Writers(r) : \A g \in Writers(r) : inflight[g].seq <= inflight[h].seq

\* C19: when callbacks with a valid signature for one order_id are handled
\* concurrently, in every interleaving the stored status, block_transaction_id,
\* actual_amount and updated_at of the order are all those of one single
\* callback, the one whose write was executed last.
C19_LastWriteWins ==
    \A r \in db :
        Writers(r) # {} =>
            LET u == inflight[LastWriter(r)].updates
            IN /\ r.status = NumAffinity(u.status)
               /\ r.block_transaction_id = TextAffinity(u.block_transaction_id)
               /\ r.actual_amount = TextAffinity(u.actual_amount)
               /\ r.updated_at = NumAffinity(u.updated_at)

\* Both invocations have written the order; their updates differ in all four
\* fields, and the one written last carries the earlier time.
C19_Witness ==
    /\ inflight[1].seq = 2 /\ inflight[2].seq = 1
    /\ inflight[1].updates.status # inflight[2].updates.status
    /\ inflight[1].updates.block_transaction_id # inflight[2].updates.block_transaction_id
    /\ inflight[1].updates.actual_amount # inflight[2].updates.actual_amount
    /\ inflight[1].updates.updated_at.n < inflight[2].updates.updated_at.n
    /\ \E r \in db : Writers(r) = Handlers

\* C21: a callback whose signature was accepted is eventually answered with
\* ok/200, also when the fetch of the manager endpoint never settles.
C21_AckDespiteHungNotifier ==
    \A h \in Handlers : (inflight[h].pc = "updating") ~> (inflight[h].resp = Ok200)

\* The row r with the four fields of the callback body written at time t.
Overwritten(r, body, t) ==
    [r EXCEPT !.status = NumAffinity(body.status),
              !.block_transaction_id =
                  IF Truthy(body.block_transaction_id)
                  THEN TextAffinity(body.block_transaction_id) ELSE EmptyStr,
              !.actual_amount = TextAffinity(body.actual_amount),
              !.updated_at = Num(t)]

AfterCallback(d, body, t) ==
    {IF r.order_id = body.order_id THEN Overwritten(r, body, t) ELSE r : r \in d}

\* C22 as claimed: every accepted callback for order_id X sets X's status,
\* block_transaction_id (empty when the callback has none), actual_amount and
\* updated_at to the callback's values, leaves every other order unchanged, and
\* changes nothing when X is not stored.
C22_Original ==
    [][(last'.op = "notify" /\ last'.valid = "true")
         => db' = AfterCallback(db, last'.req, now)]_vars

\* C22 amended: an accepted callback for order_id X whose UPDATE is executed
\* sets X's status, block_transaction_id (empty when the callback has none),
\* actual_amount and updated_at to the callback's values, leaves every other
\* order unchanged, and changes nothing and creates nothing when X is not
\* stored; an accepted callback whose UPDATE fails (a storage error, or a
\* callback without actual_amount, which D1 cannot bind) changes nothing.
C22_AcceptedCallbackFrame ==
    [][(last'.op = "notify" /\ last'.valid = "true")
         => db' = IF last'.wrote THEN AfterCallback(db, last'.req, now) ELSE db]_vars

\* A callback without a transaction reference has overwritten one of two stored orders.
C22_Witness ==
    /\ Callback /\ last.valid = "true" /\ last.wrote
    /\ last.req.block_transaction_id = Undef
    /\ Cardinality(db) = 2
    /\ \E r \in StoredOrder(db, last.req.order_id) :
         r.block_transaction_id = EmptyStr /\ r.updated_at = Num(now)

NoReference(v) == v = Null \/ v = EmptyStr

\* C23: the block_transaction_id of a stored order is empty after its creation,
\* and goes from empty to non-empty only in the handling of an accepted
\* callback for that order whose status is 2.
C23_ReferenceOnlyFromCompletion ==
    [][/\ \A q \in db' : StoredOrder(db, q.order_id) = {} => NoReference(q.block_transaction_id)
       /\ \A r \in db : \A q \in StoredOrder(db', r.order_id) :
            (NoReference(r.block_transaction_id) /\ ~NoReference(q.block_transaction_id))
              => /\ last'.op = "notify" /\ last'.valid = "true"
                 /\ last'.req.order_id = r.order_id
                 /\ NumAffinity(last'.req.status) = Num(2)]_vars

\* name=value of every field of params in ascending order of the names, joined
\* by "&", followed by the token.
SignedString(params, token) ==
    LET names == SortKeys(ObjectKeys(params))
    IN Join([i \in DOMAIN names |-> <<names[i], "=">> \o ToStr(Get(params, names[i]))], <<"&">>)
       \o ToStr(token)

\* C24: generateSignature gives for a parameter set the digest it gives for the
\* set without the signature field and without the fields whose value is
\* undefined, null or the empty string, and that digest is the MD5 of the
\* remaining name=value pairs in ascending order of the names, joined by "&",
\* followed by the secret.
C24_AbsentAndEmptyExcluded ==
    (sg.phase \in {"signed", "verified"} /\ sg.rel = "stripped")
      => /\ sg.siga = sg.sigb
         /\ sg.siga = Md5(SignedString(sg.b, sg.token))

\* C25: verifySignature(params, secret, d) is true exactly when d in lower case
\* is generateSignature(params, secret); a parameter set verifies against its
\* own digest in lower case and in upper case.
C25_VerifyIffDigestMatches ==
    sg.phase = "verified"
      => /\ sg.va = "true" /\ sg.vu = "true"
         /\ sg.vb = "true" <=> Lower(sg.siga) = generateSignature(sg.b, sg.token)
         /\ sg.vb \in {"true", "false"}

\* A digest that verifies in upper case for its own parameter set, and does not
\* verify for a set with another value in a signed field.
C25_Witness ==
    /\ sg.phase = "verified" /\ sg.rel = "tampered"
    /\ sg.vu = "true" /\ Upper(sg.siga) # sg.siga
    /\ sg.vb = "false"

\* C26: a creation request for an order_id that is already stored, to which the
\* gateway answers with success, leaves the stored record as it is (trade_id and
\* status included) and adds no record, and the caller is answered with
\* success:true and the fields of the gateway's new response.
C26_DuplicateCreateOnlyLogged ==
    [][(/\ last'.op = "create" /\ last'.calls # <<>>
        /\ last'.req.gw.kind = "json" /\ last'.req.gw.status_code = Num(200)
        /\ last'.req.gw.data # <<>>
        /\ StoredOrder(db, last'.req.body.order_id) # {})
         => /\ db' = db
            /\ last'.resp.status = 200 /\ last'.resp.body.success
            /\ last'.resp.body.data = last'.req.gw.data]_vars

\* A second creation for a completed order, answered with another trade_id.
C26_Witness ==
    /\ Creation /\ last.calls # <<>> /\ WellFormedSuccess(last.req.gw) /\ ~last.req.dbFails
    /\ last.resp.body.success
    /\ \E r \in StoredOrder(db, last.req.body.order_id) :
         /\ r.status = Num(2)
         /\ r.trade_id # last.resp.body.data[1].trade_id

\* C27: whenever the manager endpoint is called for an order_id, the repository
\* holds an order with that order_id whose stored status is 2.
C27_NotifiedOnlyWhenPersisted ==
    Callback =>
      \A i \in DOMAIN last.calls :
          \E r \in StoredOrder(db, last.calls[i].order_id) : r.status = Num(2)

\* C28: while BEPUSDT_API_TOKEN is not configured no callback is accepted: every
\* callback is rejected, and none reaches the update or the manager endpoint.
C28_NoSecretNoAcceptance ==
    (Callback /\ ~Truthy(env.BEPUSDT_API_TOKEN))
      => /\ last.valid # "true" /\ ~last.wrote
         /\ last.resp.status # 200
         /\ last.calls = <<>>

\* C29: two callback bodies that are accepted with the same signature value
\* cause the same repository update and the same calls of the manager endpoint.
C29_SignatureDeterminesEffect ==
    (/\ sg.phase = "handled" /\ sg.a.signature = sg.b.signature
     /\ sg.outa.valid = "true" /\ sg.outb.valid = "true")
      => /\ sg.outa.db = sg.outb.db
         /\ Len(sg.outa.calls) = Len(sg.outb.calls)

\* C30: once a creation of order O1 that the gateway answered with success and
\* a valid completion callback (status 2) for the trade the gateway assigned
\* have both finished, in whatever order their steps were taken, the stored
\* order has status 2.
C30_CompletionSurvivesRace ==
    (/\ creating.pc = "done" /\ creating.resp.status = 200
     /\ inflight[1].pc = "done" /\ inflight[1].valid = "true"
     /\ inflight[1].seq > 0
     /\ inflight[1].body.status = Num(2)
     /\ inflight[1].body.trade_id = creating.gw.data[1].trade_id
     /\ StoredOrder(db, inflight[1].body.order_id) # {})
      => \A r \in StoredOrder(db, inflight[1].body.order_id) : r.status = Num(2)

====
